---- MODULE Spec2Model ----
(***************************************************************************)
(* Model of govuk_bank_holidays.bank_holidays.BankHolidays: loading the    *)
(* bank holiday lists (remote fetch with fall back to the bundled          *)
(* snapshot), normalising them into per-division lists, and the queries.   *)
(*                                                                         *)
(* Python values are represented as follows.                               *)
(*   datetime.date      its proleptic Gregorian ordinal (date.toordinal()) *)
(*   Division / str     a string; Division members and their string values *)
(*                      are equal and hash alike, so they are one value    *)
(*   None (division)    the value None below                               *)
(*   BankHoliday        a record [title, date, notes, bunting]             *)
(*   a holiday or None, a date a search returns: a sequence of length at   *)
(*                      most one, <<>> for None or no result yet           *)
(*   raw JSON event     a function whose domain is the keys present        *)
(*   raw "date" value   [kind, y, m, d]: kind "ymd" is the string "y-m-d", *)
(*                      "text" a string of another shape, "null" JSON null *)
(*   JSON object        a sequence of [key, item] entries (insertion order)*)
(* The instance is built without a locale (NullTranslations.gettext is the *)
(* identity on str), query dates are always passed explicitly, and a       *)
(* remote body that parses as JSON is a JSON object.                       *)
(*                                                                         *)
(* Spec covers loading from every remote response and the holiday lists;   *)
(* SpecQueries covers the day queries and the memoized date sets for       *)
(* every weekend argument; SpecRecords covers raw records of every shape   *)
(* and the year filter; SpecGenerators covers the four generator methods   *)
(* with two generator objects; SpecSearch, with fairness of the loop       *)
(* iterations, covers the termination of the work-day searches;            *)
(* SpecFrame covers what the queries leave unchanged, with a caller that   *)
(* changes the lists it is given; SpecEquivalence covers the calls against *)
(* the generators; SpecRoundTrip covers a work-day search followed by the  *)
(* opposite search from its result; SpecInstances covers two instances and *)
(* their memoized date sets.  A finished call is handed to the caller by   *)
(* Return before the next call starts.                                     *)
(***************************************************************************)
EXTENDS Integers, Sequences, FiniteSets, TLC

VARIABLES
    phase,      \* "new" before __init__, "ready" after it returned, "raised" if it raised
    args,       \* the arguments of __init__ and the remote response it met
    weekend,    \* self.weekend
    data,       \* self._data: Division -> list of BankHoliday
    cache,      \* self._get_known_holiday_date_set_cache
    log,        \* messages passed to logger.warning, in order
    fetches,    \* number of calls of requests.get
    init_exc,   \* the exception __init__ raised, "none" if it returned
    call,       \* the query call in progress or last completed
    generators, \* the generator objects the caller holds
    held,       \* what the caller keeps of an earlier call
    other       \* the instance the caller has set aside, if it built two

vars ==
    <<phase, args, weekend, data, cache, log, fetches, init_exc, call, generators, held, other>>

----------------------------------------------------------------------------
(* Bounds of the model *)

\* longest "events" list of one division in a remote payload
MaxEvents == 2
\* most events in one remote payload, all divisions together
MaxTotalEvents == 4
\* most events in one remote payload of the instances the day queries run on
MaxQueryEvents == 2
\* number of consecutive days queries are asked about
NumQueryDays == 4
\* days beyond the queried days a work-day search may step to
Horizon == 4
\* most raw events in one remote payload of the instances built from raw
\* records of every shape
MaxRecords == 3
\* most items the caller takes from a work-day generator
MaxItems == 2

----------------------------------------------------------------------------
(* datetime: the calendar arithmetic behind strptime, weekday and year *)

IsLeap(y) == y % 4 = 0 /\ (y % 100 # 0 \/ y % 400 = 0)

DaysBeforeYear(y) == (y - 1) * 365 + ((y - 1) \div 4) - ((y - 1) \div 100) + ((y - 1) \div 400)

DaysInMonth(y, m) ==
    IF m = 2 THEN (IF IsLeap(y) THEN 29 ELSE 28)
    ELSE IF m \in {4, 6, 9, 11} THEN 30 ELSE 31

RECURSIVE DaysBeforeMonth(_, _)
DaysBeforeMonth(y, m) == IF m <= 1 THEN 0 ELSE DaysBeforeMonth(y, m - 1) + DaysInMonth(y, m - 1)

\* datetime.date(y, m, d).toordinal()
Ymd2Ord(y, m, d) == DaysBeforeYear(y) + DaysBeforeMonth(y, m) + d

\* date.weekday(): Monday is 0
Weekday(o) == (o + 6) % 7

\* datetime.date.min and datetime.date.max
DateMin == Ymd2Ord(1, 1, 1)
DateMax == Ymd2Ord(9999, 12, 31)

\* every other day is passed over
Stepped_TwoDays(date, one_day) == date + 2 * one_day

\* date += one_day, date -= one_day
Stepped(date, one_day) == date + one_day

ModelYears == 2016 .. 2019

\* date.year
YearOf(o) == CHOOSE y \in ModelYears : Ymd2Ord(y, 1, 1) <= o /\ o < Ymd2Ord(y + 1, 1, 1)

\* datetime.datetime.strptime(s, '%Y-%m-%d').date(): "ok", or the exception raised
Strptime(raw) ==
    IF raw.kind = "null" THEN [exc |-> "TypeError", date |-> 0]
    ELSE IF raw.kind # "ymd" THEN [exc |-> "ValueError", date |-> 0]
    ELSE IF raw.y < 1 \/ raw.y > 9999 \/ raw.m < 1 \/ raw.m > 12
            \/ raw.d < 1 \/ raw.d > DaysInMonth(raw.y, raw.m)
         THEN [exc |-> "ValueError", date |-> 0]
    ELSE [exc |-> "none", date |-> Ymd2Ord(raw.y, raw.m, raw.d)]

----------------------------------------------------------------------------
(* Division *)

ENGLAND_AND_WALES == "england-and-wales"
SCOTLAND == "scotland"
NORTHERN_IRELAND == "northern-ireland"

Division == {ENGLAND_AND_WALES, SCOTLAND, NORTHERN_IRELAND}

None == "<None>"

\* bool(division) as tested by 'if division:'
Truthy(division) == division # None /\ division # ""

----------------------------------------------------------------------------
(* Holiday normaliser: map_holiday and the per-division sort *)

EmptyDict == [k \in {} |-> <<>>]

\* dict.get(key) or default
Get(dict, key, default) == IF key \in DOMAIN dict THEN dict[key] ELSE default

\* map_holiday: exc "none" with the BankHoliday, "dropped" when the record is
\* logged and None returned, or the exception that escapes
MapHoliday(holiday) ==
    LET nothing == [title |-> "", date |-> 0, notes |-> "", bunting |-> FALSE]
    IN  IF "title" \notin DOMAIN holiday \/ "date" \notin DOMAIN holiday
        THEN [exc |-> "dropped", holiday |-> nothing]
        ELSE LET parsed == Strptime(holiday["date"])
             IN  IF parsed.exc = "ValueError" THEN [exc |-> "dropped", holiday |-> nothing]
                 ELSE IF parsed.exc # "none" THEN [exc |-> parsed.exc, holiday |-> nothing]
                 ELSE [exc |-> "none",
                       holiday |-> [title |-> holiday["title"],
                                    date |-> parsed.date,
                                    notes |-> Get(holiday, "notes", ""),
                                    bunting |-> Get(holiday, "bunting", FALSE)]]

\* filter(None, map(map_holiday, events)), consumed left to right: the
\* holidays kept, the number of warnings logged, and the exception that escaped
RECURSIVE MapEvents(_)
MapEvents(events) ==
    IF events = <<>> THEN [exc |-> "none", holidays |-> <<>>, warnings |-> 0]
    ELSE LET r == MapHoliday(Head(events))
         IN  IF r.exc \notin {"none", "dropped"}
             THEN [exc |-> r.exc, holidays |-> <<>>, warnings |-> 0]
             ELSE LET rest == MapEvents(Tail(events))
                  IN  [exc |-> rest.exc,
                       holidays |-> IF r.exc = "none" THEN <<r.holiday>> \o rest.holidays
                                    ELSE rest.holidays,
                       warnings |-> rest.warnings + (IF r.exc = "dropped" THEN 1 ELSE 0)]

\* the list left in the order of the raw events
SortByDate_Unsorted(holidays) == holidays

\* sorted(holidays, key=lambda holiday: holiday.date): a stable sort
RECURSIVE SortByDate(_)
SortByDate(holidays) ==
    IF holidays = <<>> THEN <<>>
    ELSE LET n == Len(holidays)
             last == holidays[n]
             front == SortByDate(SubSeq(holidays, 1, n - 1))
             k == Cardinality({i \in 1 .. (n - 1) : front[i].date <= last.date})
         IN  SubSeq(front, 1, k) \o <<last>> \o SubSeq(front, k + 1, n - 1)

\* any string is taken as a division
ToDivision_Unchecked(value) == "none"

\* Division(value): the exception the enum raises for a string that is not
\* the value of a member, "none" when it returns the member
ToDivision(value) == IF value \in Division THEN "none" ELSE "ValueError"

\* the dict comprehension that builds self._data, entry by entry
RECURSIVE BuildData(_)
BuildData(entries) ==
    IF entries = <<>> THEN [exc |-> "none", data |-> EmptyDict, warnings |-> 0]
    ELSE LET division == Head(entries).key
             item == Head(entries).item
         IN  IF ToDivision(division) # "none"
             THEN [exc |-> ToDivision(division), data |-> EmptyDict, warnings |-> 0]
             ELSE LET m == MapEvents(Get(item, "events", <<>>))
                  IN  IF m.exc # "none"
                      THEN [exc |-> m.exc, data |-> EmptyDict, warnings |-> m.warnings]
                      ELSE LET rest == BuildData(Tail(entries))
                           IN  [exc |-> rest.exc,
                                data |-> IF rest.exc = "none"
                                         THEN rest.data @@ (division :> SortByDate(m.holidays))
                                         ELSE EmptyDict,
                                warnings |-> m.warnings + rest.warnings]

----------------------------------------------------------------------------
(* Raw data *)

Ymd(y, m, d) == [kind |-> "ymd", y |-> y, m |-> m, d |-> d]

Event(title, date) == [title |-> title, date |-> date]

Entry(key, events) == [key |-> key, item |-> [division |-> key, events |-> events]]

\* the part of the bundled bank-holidays.json that falls in the model's days
BackupData ==
    << Entry(ENGLAND_AND_WALES,
             << [title |-> "New Year's Day", date |-> Ymd(2018, 1, 1), notes |-> "", bunting |-> TRUE] >>),
       Entry(SCOTLAND,
             << [title |-> "New Year's Day", date |-> Ymd(2018, 1, 1), notes |-> "", bunting |-> TRUE],
                [title |-> "2nd January", date |-> Ymd(2018, 1, 2), notes |-> "", bunting |-> TRUE] >>),
       Entry(NORTHERN_IRELAND,
             << [title |-> "New Year's Day", date |-> Ymd(2018, 1, 1), notes |-> "", bunting |-> TRUE] >>) >>

\* raw events a remote payload is made of: two days, and a second title on
\* the first day
EventPool ==
    { Event("New Year's Day", Ymd(2018, 1, 1)),
      Event("2nd January", Ymd(2018, 1, 2)),
      Event("Bank holiday", Ymd(2018, 1, 1)) }

\* the two days only
QueryEventPool ==
    { Event("New Year's Day", Ymd(2018, 1, 1)),
      Event("2nd January", Ymd(2018, 1, 2)) }

EventLists(pool, n) == UNION {[1 .. k -> pool] : k \in 0 .. n}

RECURSIVE SumLen(_)
SumLen(lists) == IF lists = <<>> THEN 0 ELSE Len(Head(lists)) + SumLen(Tail(lists))

\* the JSON objects with the given keys, in that order
PayloadsFor(keys, pool, maxEvents, maxTotal) ==
    { [i \in 1 .. Len(keys) |-> Entry(keys[i], lists[i])] :
        lists \in { l \in [1 .. Len(keys) -> EventLists(pool, maxEvents)] : SumLen(l) <= maxTotal } }

\* a response of requests.get(source_url): error is a RequestException raised
\* by the transport, parses tells whether the body is JSON, json is the body
TransportError == [error |-> TRUE, status |-> 0, parses |-> FALSE, json |-> <<>>]

\* no request was made
NotFetched == [error |-> FALSE, status |-> 0, parses |-> FALSE, json |-> <<>>]

HttpResponse(status, parses, json) ==
    [error |-> FALSE, status |-> status, parses |-> parses, json |-> json]

StatusCodes == {200, 404}

ResponsesOf(payloads) ==
    {TransportError}
    \cup {HttpResponse(s, FALSE, <<>>) : s \in StatusCodes}
    \cup {HttpResponse(s, TRUE, p) : s \in StatusCodes, p \in payloads}

----------------------------------------------------------------------------
(* Queries, as functions of the instance's fields *)

\* nothing is filtered out
FilterDates_KeepsAll(seq, dates) == seq

\* filter(pred, seq) for a predicate on the date
RECURSIVE FilterDates(_, _)
FilterDates(seq, dates) ==
    IF seq = <<>> THEN <<>>
    ELSE IF Head(seq).date \in dates THEN <<Head(seq)>> \o FilterDates(Tail(seq), dates)
    ELSE FilterDates(Tail(seq), dates)

DateSet(holidays) == {holidays[i].date : i \in 1 .. Len(holidays)}

\* the dates of any division instead of those of every division
DatesInCommon_Union(d) == UNION {DateSet(d[k]) : k \in DOMAIN d}

\* functools.reduce(set.intersection, ...) over the divisions of self._data
DatesInCommon(d) ==
    LET sets == {DateSet(d[k]) : k \in DOMAIN d}
    IN  {x \in UNION sets : \A dates \in sets : x \in dates}

NoYear == 0

\* get_holidays(division, year): the list returned, or the exception raised
GetHolidays(d, division, year) ==
    LET picked ==
            IF Truthy(division)
            THEN IF division \in DOMAIN d
                 THEN [exc |-> "none", value |-> d[division]]
                 ELSE [exc |-> "KeyError", value |-> <<>>]
            ELSE IF ENGLAND_AND_WALES \in DOMAIN d
                 THEN [exc |-> "none",
                       value |-> FilterDates(d[ENGLAND_AND_WALES], DatesInCommon(d))]
                 ELSE [exc |-> "KeyError", value |-> <<>>]
    IN  IF picked.exc = "none" /\ year # NoYear
        THEN [exc |-> "none",
              value |-> FilterDates(picked.value, {x \in DateSet(picked.value) : YearOf(x) = year})]
        ELSE picked

\* one memoized set for all divisions
KnownHolidayDateSet_SharedKey(d, c, division) ==
    IF None \notin DOMAIN c
    THEN LET holidays == GetHolidays(d, division, NoYear)
         IN  IF holidays.exc = "none"
             THEN [exc |-> "none", cache |-> c @@ (None :> DateSet(holidays.value)),
                   value |-> DateSet(holidays.value)]
             ELSE [exc |-> holidays.exc, cache |-> c, value |-> {}]
    ELSE [exc |-> "none", cache |-> c, value |-> c[None]]

\* _get_known_holiday_date_set(division): the set returned and the cache left
KnownHolidayDateSet(d, c, division) ==
    IF division \notin DOMAIN c
    THEN LET holidays == GetHolidays(d, division, NoYear)
         IN  IF holidays.exc = "none"
             THEN [exc |-> "none", cache |-> c @@ (division :> DateSet(holidays.value)),
                   value |-> DateSet(holidays.value)]
             ELSE [exc |-> holidays.exc, cache |-> c, value |-> {}]
    ELSE [exc |-> "none", cache |-> c, value |-> c[division]]

\* is_holiday(date, division)
IsHoliday(d, c, date, division) ==
    LET known == KnownHolidayDateSet(d, c, division)
    IN  [exc |-> known.exc, cache |-> known.cache, value |-> date \in known.value]

\* the weekday is not looked at
IsWorkDay_IgnoresWeekend(d, c, wk, date, division) ==
    LET known == KnownHolidayDateSet(d, c, division)
    IN  [exc |-> known.exc, cache |-> known.cache, value |-> date \notin known.value]

\* is_work_day(date, division): 'and' does not evaluate its right operand
\* when the weekday is in the weekend
IsWorkDay(d, c, wk, date, division) ==
    IF Weekday(date) \in wk
    THEN [exc |-> "none", cache |-> c, value |-> FALSE]
    ELSE LET known == KnownHolidayDateSet(d, c, division)
         IN  [exc |-> known.exc, cache |-> known.cache, value |-> date \notin known.value]

\* a holiday dated the date itself is taken
RECURSIVE FirstAfter_Inclusive(_, _)
FirstAfter_Inclusive(holidays, date) ==
    IF holidays = <<>> THEN <<>>
    ELSE IF Head(holidays).date >= date THEN <<Head(holidays)>>
    ELSE FirstAfter_Inclusive(Tail(holidays), date)

\* the first holiday of the list dated after (before) the date, as a list of
\* at most one holiday: <<>> stands for None
RECURSIVE FirstAfter(_, _)
FirstAfter(holidays, date) ==
    IF holidays = <<>> THEN <<>>
    ELSE IF Head(holidays).date > date THEN <<Head(holidays)>>
    ELSE FirstAfter(Tail(holidays), date)

RECURSIVE LastBefore(_, _)
LastBefore(holidays, date) ==
    IF holidays = <<>> THEN <<>>
    ELSE IF holidays[Len(holidays)].date < date THEN <<holidays[Len(holidays)]>>
    ELSE LastBefore(SubSeq(holidays, 1, Len(holidays) - 1), date)

\* get_next_holiday(division, date)
GetNextHoliday(d, division, date) ==
    LET holidays == GetHolidays(d, division, NoYear)
    IN  IF holidays.exc = "none"
        THEN [exc |-> "none", value |-> FirstAfter(holidays.value, date)]
        ELSE holidays

\* get_prev_holiday(division, date)
GetPrevHoliday(d, division, date) ==
    LET holidays == GetHolidays(d, division, NoYear)
    IN  IF holidays.exc = "none"
        THEN [exc |-> "none", value |-> LastBefore(holidays.value, date)]
        ELSE holidays

----------------------------------------------------------------------------
(* The state machine *)

\* Saturday 30 December 2017
FirstQueryDay == Ymd2Ord(2017, 12, 30)
LastQueryDay == FirstQueryDay + NumQueryDays - 1
QueryDates == FirstQueryDay .. LastQueryDay

\* division arguments of the queries: None, the empty string, the three
\* identifiers and a string that is none of them
DivisionArgs == {None, ""} \cup Division \cup {"not-a-real-division"}

YearArgs == {NoYear, 2017, 2018}

NoCall ==
    [op |-> "none", division |-> None, date |-> 0, year |-> NoYear,
     status |-> "idle", exc |-> "none", value |-> <<>>, cur |-> 0]

\* the record of a call that has returned or raised
Finished(op, division, date, year, r) ==
    [op |-> op, division |-> division, date |-> date, year |-> year,
     status |-> IF r.exc = "none" THEN "returned" ELSE "raised",
     exc |-> r.exc,
     value |-> IF r.exc = "none" THEN r.value ELSE <<>>,
     cur |-> 0]

\* the caller holds at most two generator objects at a time
GeneratorIds == {"first", "second"}

\* status is "none" for no object, else the state of the generator object:
\* "created" before the first next(), "running" inside next(), "suspended"
\* at a yield, "closed" after its body ended or raised; rest is the list the
\* filter still has to go through, cur the local variable date
NoGenerator ==
    [op |-> "none", division |-> None, date |-> 0, status |-> "none", exc |-> "none",
     rest |-> <<>>, cur |-> 0, yielded |-> <<>>]

\* one thread: nothing else runs while a next() call is in progress
NoneRunning == \A g \in GeneratorIds : generators[g].status # "running"

\* what the caller keeps of an earlier call: nothing, the list of a
\* get_holidays call (kind "list"), or the start date of a work-day search
\* whose result it passed on to the opposite search (kind "search")
NothingHeld ==
    [kind |-> "none", op |-> "none", division |-> None, year |-> NoYear, list |-> <<>>,
     date |-> 0, result |-> 0]

\* the arguments before __init__ is called
NoArgs == [weekend |-> {}, use_cached_holidays |-> FALSE, response |-> NotFetched]

\* no second instance
NoInstance ==
    [exists |-> FALSE, args |-> NoArgs, weekend |-> {}, data |-> EmptyDict, cache |-> EmptyDict]

Init ==
    /\ phase = "new"
    /\ args = NoArgs
    /\ weekend = {}
    /\ data = EmptyDict
    /\ cache = EmptyDict
    /\ log = <<>>
    /\ fetches = 0
    /\ init_exc = "none"
    /\ call = NoCall
    /\ generators = [g \in GeneratorIds |-> NoGenerator]
    /\ held = NothingHeld
    /\ other = NoInstance

\* the request is made whatever use_cached_holidays says
Fetched_Always(use_cached_holidays) == TRUE

\* use_cached_holidays false: the else branch calls requests.get
Fetched(use_cached_holidays) == ~use_cached_holidays

\* only RequestException is caught
FetchFailed_TransportOnly(response) == response.error

\* requests.get(...).json() raised RequestException or ValueError
FetchFailed(response) == response.error \/ ~response.parses

\* one dict shared by every instance
FreshCache_ProcessWide(existing) == existing

\* self._get_known_holiday_date_set_cache = {}: a new dict for each instance,
\* whatever an existing instance has memoized
FreshCache(existing) == EmptyDict

\* BankHolidays(weekend=wk, use_cached_holidays=...), the remote resource
\* answering with response
Construct(wk, use_cached_holidays, response) ==
    /\ phase = "new"
    /\ LET fetched == Fetched(use_cached_holidays)
           fell_back == fetched /\ FetchFailed(response)
           met == IF fetched THEN response ELSE NotFetched
           raw == IF ~fetched \/ fell_back THEN BackupData ELSE response.json
           built == BuildData(raw)
       IN  /\ args' = [weekend |-> wk, use_cached_holidays |-> use_cached_holidays, response |-> met]
           /\ weekend' = wk
           /\ cache' = FreshCache(cache)
           /\ fetches' = IF fetched THEN fetches + 1 ELSE fetches
           /\ log' = log \o (IF fell_back THEN <<"Using backup bank holiday data">> ELSE <<>>)
                         \o [i \in 1 .. built.warnings |-> "Holiday could not be parsed"]
           /\ init_exc' = built.exc
           /\ phase' = IF built.exc = "none" THEN "ready" ELSE "raised"
           /\ data' = built.data
    /\ UNCHANGED <<call, generators, held, other>>

CanCall == phase = "ready" /\ call.status = "idle" /\ NoneRunning

\* the instance in use
ThisInstance == [exists |-> TRUE, args |-> args, weekend |-> weekend, data |-> data, cache |-> cache]

\* a second BankHolidays(...) while the first is kept: the caller goes on
\* with the new instance and sets the first aside; when __init__ raises
\* there is no new instance
another_instance(wk, use_cached_holidays, response) ==
    /\ CanCall
    /\ ~other.exists
    /\ LET fetched == Fetched(use_cached_holidays)
           fell_back == fetched /\ FetchFailed(response)
           met == IF fetched THEN response ELSE NotFetched
           raw == IF ~fetched \/ fell_back THEN BackupData ELSE response.json
           built == BuildData(raw)
       IN  /\ fetches' = IF fetched THEN fetches + 1 ELSE fetches
           /\ log' = log \o (IF fell_back THEN <<"Using backup bank holiday data">> ELSE <<>>)
                         \o [i \in 1 .. built.warnings |-> "Holiday could not be parsed"]
           /\ init_exc' = built.exc
           /\ IF built.exc = "none"
              THEN /\ other' = ThisInstance
                   /\ args' = [weekend |-> wk, use_cached_holidays |-> use_cached_holidays,
                               response |-> met]
                   /\ weekend' = wk
                   /\ cache' = FreshCache(cache)
                   /\ data' = built.data
              ELSE UNCHANGED <<args, weekend, cache, data, other>>
    /\ UNCHANGED <<phase, call, generators, held>>

\* the caller turns to the instance it had set aside
switch_instance ==
    /\ CanCall
    /\ other.exists
    /\ other' = ThisInstance
    /\ args' = other.args
    /\ weekend' = other.weekend
    /\ data' = other.data
    /\ cache' = other.cache
    /\ UNCHANGED <<phase, log, fetches, init_exc, call, generators, held>>

get_holidays(division, year) ==
    /\ CanCall
    /\ call' = Finished("get_holidays", division, 0, year, GetHolidays(data, division, year))
    /\ UNCHANGED <<phase, args, weekend, data, cache, log, fetches, init_exc, generators, held, other>>

is_holiday(date, division) ==
    /\ CanCall
    /\ LET r == IsHoliday(data, cache, date, division)
       IN  /\ call' = Finished("is_holiday", division, date, NoYear, r)
           /\ cache' = r.cache
    /\ UNCHANGED <<phase, args, weekend, data, log, fetches, init_exc, generators, held, other>>

is_work_day(date, division) ==
    /\ CanCall
    /\ LET r == IsWorkDay(data, cache, weekend, date, division)
       IN  /\ call' = Finished("is_work_day", division, date, NoYear, r)
           /\ cache' = r.cache
    /\ UNCHANGED <<phase, args, weekend, data, log, fetches, init_exc, generators, held, other>>

get_next_holiday(division, date) ==
    /\ CanCall
    /\ call' = Finished("get_next_holiday", division, date, NoYear, GetNextHoliday(data, division, date))
    /\ UNCHANGED <<phase, args, weekend, data, cache, log, fetches, init_exc, generators, held, other>>

get_prev_holiday(division, date) ==
    /\ CanCall
    /\ call' = Finished("get_prev_holiday", division, date, NoYear, GetPrevHoliday(data, division, date))
    /\ UNCHANGED <<phase, args, weekend, data, cache, log, fetches, init_exc, generators, held, other>>

\* the search begins a day late
Running_FromNextDay(op, division, date) ==
    [op |-> op, division |-> division, date |-> date, year |-> NoYear,
     status |-> "running", exc |-> "none", value |-> <<>>, cur |-> date + 1]

\* get_next_work_day / get_prev_work_day up to the loop
Running(op, division, date) ==
    [op |-> op, division |-> division, date |-> date, year |-> NoYear,
     status |-> "running", exc |-> "none", value |-> <<>>, cur |-> date]

get_next_work_day(division, date) ==
    /\ CanCall
    /\ call' = Running("get_next_work_day", division, date)
    /\ UNCHANGED <<phase, args, weekend, data, cache, log, fetches, init_exc, generators, held, other>>

get_prev_work_day(division, date) ==
    /\ CanCall
    /\ call' = Running("get_prev_work_day", division, date)
    /\ UNCHANGED <<phase, args, weekend, data, cache, log, fetches, init_exc, generators, held, other>>

\* one iteration of 'while True': step a day, test it, return it if it is a
\* work day.  Only a search that cannot find a work day, every weekday
\* being in the weekend, is followed no further than Horizon days.
WorkDayIteration(op, one_day) ==
    /\ phase = "ready"
    /\ call.status = "running"
    /\ call.op = op
    /\ LET date == Stepped(call.cur, one_day)
           r == IsWorkDay(data, cache, weekend, date, call.division)
       IN  IF date < DateMin \/ date > DateMax
           THEN /\ call' = [call EXCEPT !.status = "raised", !.exc = "OverflowError"]
                /\ cache' = cache
           ELSE /\ (weekend = 0 .. 6) => (date \in (call.date - Horizon) .. (call.date + Horizon))
                /\ cache' = r.cache
                /\ call' = IF r.exc # "none"
                           THEN [call EXCEPT !.status = "raised", !.exc = r.exc, !.cur = date]
                           ELSE IF r.value
                           THEN [call EXCEPT !.status = "returned", !.value = <<date>>, !.cur = date]
                           ELSE [call EXCEPT !.cur = date]
    /\ UNCHANGED <<phase, args, weekend, data, log, fetches, init_exc, generators, held, other>>

next_work_day_loop == WorkDayIteration("get_next_work_day", 1)

prev_work_day_loop == WorkDayIteration("get_prev_work_day", -1)

\* the caller takes the result or the exception of the finished call
Return ==
    /\ call.status \in {"returned", "raised"}
    /\ call' = NoCall
    /\ UNCHANGED <<phase, args, weekend, data, cache, log, fetches, init_exc, generators, held, other>>

\* get_holidays hands out the stored list of the division itself
SharesStore_DivisionList(division, year) == Truthy(division) /\ year = NoYear

\* whether the list get_holidays returned is a list of self._data: never,
\* 'return list(holidays)' builds a new list at every call
SharesStore(division, year) == FALSE

\* the caller takes the list a get_holidays call returned, removes its last
\* item and keeps it
caller_changes_list ==
    /\ call.op = "get_holidays"
    /\ call.status = "returned"
    /\ call.value # <<>>
    /\ LET changed == SubSeq(call.value, 1, Len(call.value) - 1)
       IN  /\ held' = [NothingHeld EXCEPT !.kind = "list", !.op = call.op, !.division = call.division,
                                          !.year = call.year, !.list = changed]
           /\ data' = IF SharesStore(call.division, call.year)
                      THEN [data EXCEPT ![call.division] = changed]
                      ELSE data
    /\ call' = NoCall
    /\ UNCHANGED <<phase, args, weekend, cache, log, fetches, init_exc, generators, other>>

\* the search in the other direction
Opposite(op) == IF op = "get_next_work_day" THEN "get_prev_work_day" ELSE "get_next_work_day"

\* get_prev_work_day(D, get_next_work_day(D, d)) and the like: the caller
\* passes the date a search returned to the opposite search
pass_on_result ==
    /\ phase = "ready"
    /\ call.op \in {"get_next_work_day", "get_prev_work_day"}
    /\ call.status = "returned"
    /\ held' = [NothingHeld EXCEPT !.kind = "search", !.op = call.op, !.division = call.division,
                                   !.date = call.date, !.result = call.value[1]]
    /\ call' = Running(Opposite(call.op), call.division, call.value[1])
    /\ UNCHANGED <<phase, args, weekend, data, cache, log, fetches, init_exc, generators, other>>

----------------------------------------------------------------------------
(* Generators.  Calling a generator method only makes the generator object; *)
(* its body runs at the next() calls, up to a yield, its end or an exception *)

HolidayGenerators == {"holidays_after", "holidays_before"}
WorkDayGenerators == {"work_days_after", "work_days_before"}

\* a generator method is called; the second object is made after the first
NewGenerator(g, op, division, date) ==
    /\ phase = "ready"
    /\ call.status = "idle"
    /\ NoneRunning
    /\ generators[g].status = "none"
    /\ (g = "second") => (generators["first"].status # "none")
    /\ generators' = [generators EXCEPT ![g] =
            [op |-> op, division |-> division, date |-> date, status |-> "created",
             exc |-> "none", rest |-> <<>>, cur |-> date, yielded |-> <<>>]]
    /\ UNCHANGED <<phase, args, weekend, data, cache, log, fetches, init_exc, call, held, other>>

holidays_after(g, division, date) == NewGenerator(g, "holidays_after", division, date)

holidays_before(g, division, date) == NewGenerator(g, "holidays_before", division, date)

work_days_after(g, division, date) == NewGenerator(g, "work_days_after", division, date)

work_days_before(g, division, date) == NewGenerator(g, "work_days_before", division, date)

\* reversed(holidays)
Reversed(holidays) == [i \in 1 .. Len(holidays) |-> holidays[Len(holidays) + 1 - i]]

\* the holiday dated the date itself passes the filter
Passes_OrSame(op, holiday, date) ==
    IF op = "holidays_after" THEN holiday.date >= date ELSE holiday.date <= date

\* the lambda given to filter: holiday.date > date, or holiday.date < date
Passes(op, holiday, date) ==
    IF op = "holidays_after" THEN holiday.date > date ELSE holiday.date < date

\* the filter object advancing to its next item: what is left of the list
\* from the first holiday that passes
RECURSIVE SkipTo(_, _, _)
SkipTo(op, rest, date) ==
    IF rest = <<>> THEN <<>>
    ELSE IF Passes(op, Head(rest), date) THEN rest
    ELSE SkipTo(op, Tail(rest), date)

\* next() on a holidays_after or holidays_before generator: the first call
\* runs get_holidays, every call takes the next item of the filter
holidays_next(g) ==
    /\ phase = "ready"
    /\ call.status = "idle"
    /\ NoneRunning
    /\ generators[g].op \in HolidayGenerators
    /\ generators[g].status \in {"created", "suspended"}
    /\ LET gen == generators[g]
           holidays == GetHolidays(data, gen.division, NoYear)
           started ==
               IF gen.status = "suspended" THEN [exc |-> "none", rest |-> gen.rest]
               ELSE IF holidays.exc # "none" THEN [exc |-> holidays.exc, rest |-> <<>>]
               ELSE IF gen.op = "holidays_after" THEN [exc |-> "none", rest |-> holidays.value]
               ELSE [exc |-> "none", rest |-> Reversed(holidays.value)]
           found == SkipTo(gen.op, started.rest, gen.date)
       IN  generators' = [generators EXCEPT ![g] =
               IF started.exc # "none"
               THEN [gen EXCEPT !.status = "closed", !.exc = started.exc]
               ELSE IF found = <<>>
               THEN [gen EXCEPT !.status = "closed", !.rest = <<>>]
               ELSE [gen EXCEPT !.status = "suspended", !.rest = Tail(found),
                                !.yielded = Append(gen.yielded, Head(found))]]
    /\ UNCHANGED <<phase, args, weekend, data, cache, log, fetches, init_exc, call, held, other>>

\* next() on a work_days_after or work_days_before generator, one iteration
\* of 'while True' at a time: step a day, test it, yield it if it is a work
\* day.  The caller takes at most MaxItems items.
WorkDaysIteration(g, op, one_day) ==
    /\ phase = "ready"
    /\ call.status = "idle"
    /\ generators[g].op = op
    /\ generators[g].status \in {"created", "suspended", "running"}
    /\ \A h \in GeneratorIds \ {g} : generators[h].status # "running"
    /\ (generators[g].status # "running") => (Len(generators[g].yielded) < MaxItems)
    /\ LET gen == generators[g]
           date == Stepped(gen.cur, one_day)
           r == IsWorkDay(data, cache, weekend, date, gen.division)
       IN  IF date < DateMin \/ date > DateMax
           THEN /\ generators' = [generators EXCEPT ![g] =
                        [gen EXCEPT !.status = "closed", !.exc = "OverflowError"]]
                /\ cache' = cache
           ELSE /\ (weekend = 0 .. 6) => (date \in (gen.date - Horizon) .. (gen.date + Horizon))
                /\ cache' = r.cache
                /\ generators' = [generators EXCEPT ![g] =
                        IF r.exc # "none"
                        THEN [gen EXCEPT !.status = "closed", !.exc = r.exc, !.cur = date]
                        ELSE IF r.value
                        THEN [gen EXCEPT !.status = "suspended", !.cur = date,
                                         !.yielded = Append(gen.yielded, date)]
                        ELSE [gen EXCEPT !.status = "running", !.cur = date]]
    /\ UNCHANGED <<phase, args, weekend, data, log, fetches, init_exc, call, held, other>>

work_days_after_next(g) == WorkDaysIteration(g, "work_days_after", 1)

work_days_before_next(g) == WorkDaysIteration(g, "work_days_before", -1)

----------------------------------------------------------------------------
(* Loading and the holiday lists: every remote response, default weekend *)

DefaultWeekend == {5, 6}

KeyOrders ==
    { <<ENGLAND_AND_WALES, SCOTLAND, NORTHERN_IRELAND>>,
      <<ENGLAND_AND_WALES, SCOTLAND>>,
      <<SCOTLAND, NORTHERN_IRELAND>>,
      <<ENGLAND_AND_WALES, "error">>,
      <<>> }

Payloads == UNION {PayloadsFor(keys, EventPool, MaxEvents, MaxTotalEvents) : keys \in KeyOrders}

Responses == ResponsesOf(Payloads)

\* a new instance with the default weekend
NewInstance ==
    /\ phase = "new"
    /\ \E use_cached_holidays \in BOOLEAN, response \in Responses :
            Construct(DefaultWeekend, use_cached_holidays, response)

Next ==
    \/ NewInstance
    \/ \E division \in DivisionArgs, year \in YearArgs : get_holidays(division, year)
    \/ \E date \in QueryDates, division \in DivisionArgs : get_next_holiday(division, date)
    \/ \E date \in QueryDates, division \in DivisionArgs : get_prev_holiday(division, date)
    \/ Return

Spec == Init /\ [][Next]_vars

----------------------------------------------------------------------------
(* The day queries and the memoized date sets: every weekend, fewer payloads *)

\* weekend arguments: the default, the one of the tests, none, every weekday
WeekendArgs == {{5, 6}, {1, 5, 6}, {}, 0 .. 6}

\* every division loaded, or England and Wales only
QueryKeyOrders ==
    { <<ENGLAND_AND_WALES, SCOTLAND, NORTHERN_IRELAND>>,
      <<ENGLAND_AND_WALES>> }

\* division arguments of the day queries
QueryDivisionArgs == {None, ENGLAND_AND_WALES, SCOTLAND, "not-a-real-division"}

QueryPayloads == UNION {PayloadsFor(keys, QueryEventPool, MaxEvents, MaxQueryEvents) : keys \in QueryKeyOrders}

QueryResponses == {TransportError} \cup {HttpResponse(200, TRUE, p) : p \in QueryPayloads}

\* a new instance with any of the weekends
NewInstanceWithWeekend ==
    /\ phase = "new"
    /\ \E wk \in WeekendArgs, use_cached_holidays \in BOOLEAN, response \in QueryResponses :
            Construct(wk, use_cached_holidays, response)

NextQueries ==
    \/ NewInstanceWithWeekend
    \/ \E division \in QueryDivisionArgs : get_holidays(division, NoYear)
    \/ \E date \in QueryDates, division \in QueryDivisionArgs : is_holiday(date, division)
    \/ \E date \in QueryDates, division \in QueryDivisionArgs : is_work_day(date, division)
    \/ \E date \in QueryDates, division \in QueryDivisionArgs : get_next_work_day(division, date)
    \/ \E date \in QueryDates, division \in QueryDivisionArgs : get_prev_work_day(division, date)
    \/ next_work_day_loop
    \/ prev_work_day_loop
    \/ Return

SpecQueries == Init /\ [][NextQueries]_vars

----------------------------------------------------------------------------
(* Raw records of every shape, and the year filter: two divisions *)

NotYmd == [kind |-> "text", y |-> 0, m |-> 0, d |-> 0]

JsonNull == [kind |-> "null", y |-> 0, m |-> 0, d |-> 0]

\* raw events as map_holiday can meet them: two well-formed ones in
\* different years, one without "date", one without "title", and dates that
\* are a string of another shape, a day the month does not have, and null
RecordPool ==
    { Event("New Year's Day", Ymd(2018, 1, 1)),
      Event("Boxing Day", Ymd(2017, 12, 26)),
      [title |-> "Bank holiday"],
      [date |-> Ymd(2018, 1, 2)],
      Event("Bank holiday", NotYmd),
      Event("Bank holiday", Ymd(2018, 2, 30)),
      Event("Bank holiday", JsonNull) }

RecordKeyOrders == { <<ENGLAND_AND_WALES, SCOTLAND>> }

RecordPayloads == UNION {PayloadsFor(keys, RecordPool, MaxEvents, MaxRecords) : keys \in RecordKeyOrders}

RecordDivisionArgs == {None, ENGLAND_AND_WALES, SCOTLAND}

\* a new instance that reads a remote payload
NewInstanceFromRecords ==
    /\ phase = "new"
    /\ \E payload \in RecordPayloads :
            Construct(DefaultWeekend, FALSE, HttpResponse(200, TRUE, payload))

NextRecords ==
    \/ NewInstanceFromRecords
    \/ \E division \in RecordDivisionArgs, year \in YearArgs : get_holidays(division, year)
    \/ Return

SpecRecords == Init /\ [][NextRecords]_vars

----------------------------------------------------------------------------
(* The generators: the bundled snapshot, two generator objects *)

\* the default weekend and every weekday
GeneratorWeekendArgs == {{5, 6}, 0 .. 6}

GeneratorDivisionArgs == {None, SCOTLAND, "not-a-real-division"}

\* Saturday 30 December 2017, Monday 1 January 2018, and the days next to
\* the ends of the calendar
GeneratorDates == {FirstQueryDay, Ymd2Ord(2018, 1, 1), DateMin + 1, DateMax - 1}

\* a new instance using the bundled snapshot
NewInstanceForGenerators ==
    /\ phase = "new"
    /\ \E wk \in GeneratorWeekendArgs : Construct(wk, TRUE, NotFetched)

NextGenerators ==
    \/ NewInstanceForGenerators
    \/ \E g \in GeneratorIds, division \in GeneratorDivisionArgs, date \in GeneratorDates :
            holidays_after(g, division, date)
    \/ \E g \in GeneratorIds, division \in GeneratorDivisionArgs, date \in GeneratorDates :
            holidays_before(g, division, date)
    \/ \E g \in GeneratorIds, division \in GeneratorDivisionArgs, date \in GeneratorDates :
            work_days_after(g, division, date)
    \/ \E g \in GeneratorIds, division \in GeneratorDivisionArgs, date \in GeneratorDates :
            work_days_before(g, division, date)
    \/ \E g \in GeneratorIds : holidays_next(g)
    \/ \E g \in GeneratorIds : work_days_after_next(g)
    \/ \E g \in GeneratorIds : work_days_before_next(g)

SpecGenerators == Init /\ [][NextGenerators]_vars

----------------------------------------------------------------------------
(* The work-day searches to their end: weekends that leave one weekday or *)
(* none out, start dates next to the holidays and to the calendar's ends  *)

\* the default weekend, every weekday but Monday, every weekday
SearchWeekendArgs == {{5, 6}, 1 .. 6, 0 .. 6}

SearchDivisionArgs == {None, SCOTLAND}

SearchDates == {FirstQueryDay, Ymd2Ord(2018, 1, 1), DateMin + 1, DateMax - 1}

\* a new instance using the bundled snapshot
NewInstanceForSearch ==
    /\ phase = "new"
    /\ \E wk \in SearchWeekendArgs : Construct(wk, TRUE, NotFetched)

NextSearch ==
    \/ NewInstanceForSearch
    \/ \E date \in SearchDates, division \in SearchDivisionArgs : get_next_work_day(division, date)
    \/ \E date \in SearchDates, division \in SearchDivisionArgs : get_prev_work_day(division, date)
    \/ next_work_day_loop
    \/ prev_work_day_loop
    \/ Return

\* every iteration of a loop changes the position of the call
position == <<call.status, call.cur>>

\* a call that is in its loop goes on executing it
SpecSearch ==
    /\ Init
    /\ [][NextSearch]_vars
    /\ WF_position(next_work_day_loop)
    /\ WF_position(prev_work_day_loop)

----------------------------------------------------------------------------
(* Every kind of query on one instance, one generator object, and a caller *)
(* that changes the lists it is given                                      *)

FrameDivisionArgs == {None, SCOTLAND, "not-a-real-division"}

\* Saturday 30 December 2017 and Monday 1 January 2018
FrameDates == {FirstQueryDay, Ymd2Ord(2018, 1, 1)}

NextFrame ==
    \/ NewInstanceForGenerators
    \/ \E division \in FrameDivisionArgs, year \in YearArgs : get_holidays(division, year)
    \/ \E date \in FrameDates, division \in FrameDivisionArgs : is_holiday(date, division)
    \/ \E date \in FrameDates, division \in FrameDivisionArgs : is_work_day(date, division)
    \/ \E date \in FrameDates, division \in FrameDivisionArgs : get_next_holiday(division, date)
    \/ \E date \in FrameDates, division \in FrameDivisionArgs : get_prev_work_day(division, date)
    \/ prev_work_day_loop
    \/ \E division \in FrameDivisionArgs : holidays_after("first", division, FirstQueryDay)
    \/ \E division \in FrameDivisionArgs : work_days_after("first", division, FirstQueryDay)
    \/ holidays_next("first")
    \/ work_days_after_next("first")
    \/ caller_changes_list
    \/ Return

SpecFrame == Init /\ [][NextFrame]_vars

----------------------------------------------------------------------------
(* A generator and the calls that should agree with it: the call with the *)
(* generator's arguments, and the work-day search from each item yielded  *)

\* the default weekend and the one of the tests
EquivalenceWeekendArgs == {{5, 6}, {1, 5, 6}}

EquivalenceDivisionArgs == {None, SCOTLAND}

\* Saturday 30 December 2017, Monday 1 January 2018, Thursday 30 December 9999
EquivalenceDates == {FirstQueryDay, Ymd2Ord(2018, 1, 1), DateMax - 1}

NewInstanceForEquivalence ==
    /\ phase = "new"
    /\ \E wk \in EquivalenceWeekendArgs, response \in QueryResponses : Construct(wk, FALSE, response)

\* the start date of the generator and the dates it has yielded
ComparedDates(gen) == {gen.date} \cup {gen.yielded[i] : i \in 1 .. Len(gen.yielded)}

NextEquivalence ==
    \/ NewInstanceForEquivalence
    \/ \E division \in EquivalenceDivisionArgs, date \in EquivalenceDates :
            holidays_after("first", division, date)
    \/ \E division \in EquivalenceDivisionArgs, date \in EquivalenceDates :
            holidays_before("first", division, date)
    \/ \E division \in EquivalenceDivisionArgs, date \in EquivalenceDates :
            work_days_after("first", division, date)
    \/ \E division \in EquivalenceDivisionArgs, date \in EquivalenceDates :
            work_days_before("first", division, date)
    \/ holidays_next("first")
    \/ work_days_after_next("first")
    \/ work_days_before_next("first")
    \/ /\ generators["first"].op = "holidays_after"
       /\ get_next_holiday(generators["first"].division, generators["first"].date)
    \/ /\ generators["first"].op = "holidays_before"
       /\ get_prev_holiday(generators["first"].division, generators["first"].date)
    \/ /\ generators["first"].op = "work_days_after"
       /\ \E date \in ComparedDates(generators["first"]) :
              get_next_work_day(generators["first"].division, date)
    \/ /\ generators["first"].op = "work_days_before"
       /\ \E date \in ComparedDates(generators["first"]) :
              get_prev_work_day(generators["first"].division, date)
    \/ next_work_day_loop
    \/ prev_work_day_loop
    \/ Return

SpecEquivalence == Init /\ [][NextEquivalence]_vars

----------------------------------------------------------------------------
(* A work-day search followed by the opposite search from its result *)

\* the queried days and the first and last days of the calendar
RoundTripDates == QueryDates \cup {DateMin, DateMin + 1, DateMax - 1, DateMax}

\* the default weekend, and one with Mondays, the weekday of the first day
\* of the calendar
RoundTripWeekendArgs == {{5, 6}, {0, 5, 6}}

NewInstanceForRoundTrip ==
    /\ phase = "new"
    /\ \E wk \in RoundTripWeekendArgs, response \in QueryResponses : Construct(wk, FALSE, response)

NextRoundTrip ==
    \/ NewInstanceForRoundTrip
    \/ \E date \in RoundTripDates, division \in EquivalenceDivisionArgs : get_next_work_day(division, date)
    \/ \E date \in RoundTripDates, division \in EquivalenceDivisionArgs : get_prev_work_day(division, date)
    \/ next_work_day_loop
    \/ prev_work_day_loop
    \/ pass_on_result
    \/ Return

SpecRoundTrip == Init /\ [][NextRoundTrip]_vars

----------------------------------------------------------------------------
(* Two instances and their memoized date sets *)

\* divisions of the day queries on two instances: none, the empty string, a
\* division either payload may leave out, and a string that is no division
InstanceDivisionArgs == {None, "", SCOTLAND, "not-a-real-division"}

InstanceDates == {FirstQueryDay, Ymd2Ord(2018, 1, 1)}

\* the first instance uses the bundled snapshot
NewInstanceForInstances ==
    /\ phase = "new"
    /\ Construct({5, 6}, TRUE, NotFetched)

NextInstances ==
    \/ NewInstanceForInstances
    \/ \E response \in QueryResponses : another_instance({1, 5, 6}, FALSE, response)
    \/ switch_instance
    \/ \E date \in InstanceDates, division \in InstanceDivisionArgs : is_holiday(date, division)
    \/ \E date \in InstanceDates, division \in InstanceDivisionArgs : is_work_day(date, division)
    \/ Return

SpecInstances == Init /\ [][NextInstances]_vars

----------------------------------------------------------------------------
(* Properties *)

Count(seq, x) == Cardinality({i \in 1 .. Len(seq) : seq[i] = x})

Constructed == phase # "new"

NewYear2018 == Ymd2Ord(2018, 1, 1)

\* the store the bundled snapshot normalises to
SnapshotStore ==
    LET new_year == [title |-> "New Year's Day", date |-> NewYear2018, notes |-> "", bunting |-> TRUE]
        second == [title |-> "2nd January", date |-> NewYear2018 + 1, notes |-> "", bunting |-> TRUE]
    IN  [division \in Division |->
            IF division = SCOTLAND THEN <<new_year, second>> ELSE <<new_year>>]

\* a finished get_holidays() call without division and year
CommonCall == call.op = "get_holidays" /\ call.division = None /\ call.year = NoYear

\* C1: when use_cached_holidays is false and the fetch raises a transport
\* error or returns a body that is not JSON, __init__ returns, the store is
\* the one of the bundled snapshot and 'Using backup bank holiday data' is
\* logged exactly once.
C1_FallbackOnFailedFetch ==
    (Constructed /\ ~args.use_cached_holidays /\ (args.response.error \/ ~args.response.parses))
        => /\ phase = "ready"
           /\ init_exc = "none"
           /\ data = SnapshotStore
           /\ Count(log, "Using backup bank holiday data") = 1

C1_Witness ==
    /\ phase = "ready"
    /\ ~args.use_cached_holidays
    /\ ~args.response.error
    /\ ~args.response.parses
    /\ fetches = 1
    /\ log = <<"Using backup bank holiday data">>

\* C2: with use_cached_holidays true no remote fetch is attempted, the store
\* is the one of the bundled snapshot, no warning is logged and
\* get_holidays() returns a non-empty list.
C2_CachedNeverFetches ==
    (Constructed /\ args.use_cached_holidays)
        => /\ phase = "ready"
           /\ fetches = 0
           /\ data = SnapshotStore
           /\ log = <<>>
           /\ CommonCall => (call.status = "returned" /\ call.value # <<>>)

C2_Witness ==
    /\ args.use_cached_holidays
    /\ fetches = 0
    /\ CommonCall
    /\ call.status = "returned"
    /\ Len(call.value) = 1

\* C3: a response with an HTTP error status, whatever its body, makes
\* __init__ fall back to the bundled snapshot, and get_holidays() is then
\* non-empty.
C3_HttpErrorFallsBack ==
    (Constructed /\ ~args.use_cached_holidays /\ ~args.response.error /\ args.response.status >= 400)
        => /\ phase = "ready"
           /\ data = SnapshotStore
           /\ CommonCall => (call.status = "returned" /\ call.value # <<>>)

AllLoaded == Division \subseteq DOMAIN data

\* the date is a holiday of every loaded division
InEveryDivision(holiday) ==
    \A division \in DOMAIN data : \E i \in 1 .. Len(data[division]) : data[division][i].date = holiday.date

\* C4: when every division is loaded, get_holidays() is the England and
\* Wales list restricted to the dates every loaded division has, in the
\* England and Wales order and with its copy of title, notes and bunting.
C4_CommonIsFilteredEnglandAndWales ==
    (phase = "ready" /\ AllLoaded /\ CommonCall)
        => /\ call.status = "returned"
           /\ call.value = SelectSeq(data[ENGLAND_AND_WALES], InEveryDivision)

C4_Witness ==
    /\ phase = "ready"
    /\ AllLoaded
    /\ CommonCall
    /\ call.status = "returned"
    /\ Len(call.value) = 1
    /\ Len(data[ENGLAND_AND_WALES]) = 2
    /\ call.value[1].title # data[SCOTLAND][1].title
    /\ data[SCOTLAND][1].date = call.value[1].date

\* a finished get_holidays(D) call for a loaded division, all years
DivisionCall ==
    /\ call.op = "get_holidays"
    /\ call.division \in DOMAIN data
    /\ call.year = NoYear
    /\ call.status = "returned"

\* C5 as stated: get_holidays(D) is strictly ascending by date for every raw
\* payload, so no two entries of a division share a date.
C5_StrictlyAscending ==
    DivisionCall => \A i \in 1 .. Len(call.value) - 1 : call.value[i].date < call.value[i + 1].date

\* C5 amended: get_holidays(D) is ascending by date whatever the order of
\* the raw events, each entry's date being greater than or equal to the
\* previous entry's date; entries of one division can share a date.
C5_Ascending ==
    DivisionCall => \A i \in 1 .. Len(call.value) - 1 : call.value[i].date <= call.value[i + 1].date

\* the raw events of the division come later day first
C5_Witness ==
    /\ DivisionCall
    /\ args.response.parses
    /\ \E i \in 1 .. Len(args.response.json) :
          /\ args.response.json[i].key = call.division
          /\ args.response.json[i].item.events =
                << Event("2nd January", Ymd(2018, 1, 2)), Event("New Year's Day", Ymd(2018, 1, 1)) >>
    /\ Len(call.value) = 2
    /\ call.value[1].date < call.value[2].date

\* the division argument names a list of the store: a loaded division, or
\* no division when England and Wales is loaded
HasList(division) ==
    IF division \in {None, ""} THEN ENGLAND_AND_WALES \in DOMAIN data ELSE division \in DOMAIN data

\* the dates of the entries of get_holidays(division)
ListedDates(division) ==
    LET holidays == GetHolidays(data, division, NoYear).value
    IN  {holidays[i].date : i \in 1 .. Len(holidays)}

\* C6: after any sequence of queries, is_holiday(d, D) is true exactly when
\* d is the date of an entry of get_holidays(D), and every memoized date set
\* is the date set of the list.
C6_IsHolidayAgreesWithList ==
    /\ \A division \in DOMAIN cache : HasList(division) /\ cache[division] = ListedDates(division)
    /\ (call.op = "is_holiday" /\ HasList(call.division))
          => /\ call.status = "returned"
             /\ call.value = (call.date \in ListedDates(call.division))

\* a second query is answered from the memoized set of another division
C6_Witness ==
    /\ call.op = "is_holiday"
    /\ call.status = "returned"
    /\ call.value
    /\ call.division = SCOTLAND
    /\ None \in DOMAIN cache
    /\ call.date \notin cache[None]

IsWorkDayTruth(date, division) ==
    ~(Weekday(date) \in weekend \/ date \in ListedDates(division))

\* C7: is_work_day(d, D) is false when d's weekday is in the weekend set or
\* d is a holiday of D, and true otherwise.
C7_IsWorkDay ==
    (call.op = "is_work_day" /\ HasList(call.division))
        => /\ call.status = "returned"
           /\ call.value = IsWorkDayTruth(call.date, call.division)

\* Tuesday 2 January 2018 with Tuesdays in the weekend is no work day
C7_Witness ==
    /\ call.op = "is_work_day"
    /\ call.status = "returned"
    /\ call.division = ENGLAND_AND_WALES
    /\ call.date = NewYear2018 + 1
    /\ call.date \notin ListedDates(ENGLAND_AND_WALES)
    /\ 1 \in weekend
    /\ ~call.value

WorkDayCallReturned ==
    /\ call.op \in {"get_next_work_day", "get_prev_work_day"}
    /\ call.status = "returned"
    /\ HasList(call.division)

\* C8: get_next_work_day(D, d) is the least work day after d and
\* get_prev_work_day(D, d) the greatest work day before d.
C8_NearestWorkDay ==
    WorkDayCallReturned
        => /\ Len(call.value) = 1
           /\ IsWorkDayTruth(call.value[1], call.division)
           /\ call.op = "get_next_work_day"
                => /\ call.value[1] > call.date
                   /\ \A x \in (call.date + 1) .. (call.value[1] - 1) : ~IsWorkDayTruth(x, call.division)
           /\ call.op = "get_prev_work_day"
                => /\ call.value[1] < call.date
                   /\ \A x \in (call.value[1] + 1) .. (call.date - 1) : ~IsWorkDayTruth(x, call.division)

\* after Saturday 30 December 2017 the next work day in Scotland is Wednesday
C8_Witness ==
    /\ call.op = "get_next_work_day"
    /\ call.status = "returned"
    /\ call.division = SCOTLAND
    /\ call.date = NewYear2018 - 2
    /\ call.value = <<NewYear2018 + 2>>
    /\ weekend = {5, 6}

HolidayCallFinished ==
    /\ call.op \in {"get_next_holiday", "get_prev_holiday"}
    /\ HasList(call.division)

\* C9: get_next_holiday(D, d) is a holiday of the list with the smallest
\* date after d, get_prev_holiday(D, d) one with the greatest date before d,
\* and each is None when there is no such holiday.
C9_NearestHoliday ==
    HolidayCallFinished
        => LET holidays == GetHolidays(data, call.division, NoYear).value
               after == {i \in 1 .. Len(holidays) : holidays[i].date > call.date}
               before == {i \in 1 .. Len(holidays) : holidays[i].date < call.date}
               side == IF call.op = "get_next_holiday" THEN after ELSE before
           IN  /\ call.status = "returned"
               /\ Len(call.value) <= 1
               /\ (call.value = <<>>) <=> (side = {})
               /\ call.value # <<>>
                    => /\ \E i \in side : holidays[i] = call.value[1]
                       /\ call.op = "get_next_holiday"
                            => \A i \in after : holidays[i].date >= call.value[1].date
                       /\ call.op = "get_prev_holiday"
                            => \A i \in before : holidays[i].date <= call.value[1].date

\* the holiday dated exactly d is passed over
C9_Witness ==
    /\ call.op = "get_next_holiday"
    /\ call.status = "returned"
    /\ call.division = SCOTLAND
    /\ call.date = NewYear2018
    /\ call.date \in ListedDates(SCOTLAND)
    /\ call.value # <<>>
    /\ call.value[1].date = NewYear2018 + 1

\* C10: a query called with a division string that is not one of the three
\* identifiers raises; it never returns a result.
C10_UnknownDivisionRaises ==
    (call.status = "returned") => (call.division \in Division \cup {None})

\* the exception a dict lookup raises for a key the dict does not have
LookupMiss == "KeyError"

\* C11: get_holidays(D) for one of the three divisions that the loaded data
\* lacks raises the lookup-miss error, and a get_holidays call with a string
\* that is none of the three identifiers raises an error of another kind.
C11_LookupMissDiffersFromInvalidArgument ==
    (phase = "ready" /\ call.op = "get_holidays" /\ call.status # "idle")
        => /\ (call.division \in Division \ DOMAIN data)
                => (call.status = "raised" /\ call.exc = LookupMiss)
           /\ (Truthy(call.division) /\ call.division \notin Division)
                => (call.status = "raised" /\ call.exc # LookupMiss)

\* the raw event has a title and a date that is a day of the calendar
\* written YYYY-MM-DD
WellFormed(event) ==
    /\ "title" \in DOMAIN event
    /\ "date" \in DOMAIN event
    /\ event["date"].kind = "ymd"
    /\ event["date"].m \in 1 .. 12
    /\ event["date"].d \in 1 .. DaysInMonth(event["date"].y, event["date"].m)

\* C12: whatever raw events the payload has, with title or date missing or
\* a date value that is not a valid YYYY-MM-DD date, __init__ returns, each
\* such event is dropped with one warning, and the division's list holds
\* every well-formed event of the division.
C12_MalformedRecordsDropped ==
    (Constructed /\ args.response.parses)
        => LET json == args.response.json
               events(i) == json[i].item.events
               good(i) == {k \in 1 .. Len(events(i)) : WellFormed(events(i)[k])}
               bad(i) == (1 .. Len(events(i))) \ good(i)
               all_bad == {<<i, k>> \in (1 .. Len(json)) \X (1 .. MaxRecords) : k \in bad(i)}
           IN  /\ phase = "ready"
               /\ init_exc = "none"
               /\ Count(log, "Holiday could not be parsed") = Cardinality(all_bad)
               /\ \A i \in 1 .. Len(json) :
                     /\ json[i].key \in DOMAIN data
                     /\ Len(data[json[i].key]) = Cardinality(good(i))
                     /\ \A k \in good(i) :
                           \E n \in 1 .. Len(data[json[i].key]) :
                               /\ data[json[i].key][n].title = events(i)[k]["title"]
                               /\ data[json[i].key][n].date =
                                      Ymd2Ord(events(i)[k]["date"].y, events(i)[k]["date"].m, events(i)[k]["date"].d)

\* the date falls between 1 January and 31 December of the year
InCalendarYear(holiday, year) ==
    Ymd2Ord(year, 1, 1) <= holiday.date /\ holiday.date <= Ymd2Ord(year, 12, 31)

\* C13: get_holidays(D, year=y), D a division or none, returns the entries
\* of get_holidays(D) dated in calendar year y, all of them and no other,
\* in the order they have in get_holidays(D).
C13_YearFilter ==
    (call.op = "get_holidays" /\ call.year # NoYear /\ HasList(call.division))
        => LET OfTheYear(holiday) == InCalendarYear(holiday, call.year)
           IN  /\ call.status = "returned"
               /\ call.value = SelectSeq(GetHolidays(data, call.division, NoYear).value, OfTheYear)

\* Scotland has a holiday in 2017 and one in 2018; the 2017 one is asked for
C13_Witness ==
    /\ call.op = "get_holidays"
    /\ call.status = "returned"
    /\ call.division = SCOTLAND
    /\ call.year = 2017
    /\ Len(data[SCOTLAND]) = 2
    /\ data[SCOTLAND][2].date = NewYear2018
    /\ Len(call.value) = 1
    /\ call.value[1] = data[SCOTLAND][1]

IsPrefix(s, t) == Len(s) <= Len(t) /\ s = SubSeq(t, 1, Len(s))

\* the holidays of the list dated after the date, in the order of the list,
\* and those dated before it, last first
ListedAfter(division, date) ==
    LET After(holiday) == holiday.date > date
    IN  SelectSeq(GetHolidays(data, division, NoYear).value, After)

ListedBefore(division, date) ==
    LET Before(holiday) == holiday.date < date
    IN  Reversed(SelectSeq(GetHolidays(data, division, NoYear).value, Before))

\* C14: what a holidays_after(D, d) generator has yielded is the beginning
\* of the holidays of the list dated strictly after d, in ascending date
\* order, and it ends when it has yielded all of them; holidays_before
\* likewise with those dated strictly before d, in descending date order.
C14_HolidayGenerators ==
    \A g \in GeneratorIds :
        LET gen == generators[g]
            expected == IF gen.op = "holidays_after" THEN ListedAfter(gen.division, gen.date)
                        ELSE ListedBefore(gen.division, gen.date)
        IN  (gen.op \in HolidayGenerators /\ HasList(gen.division))
                => /\ gen.exc = "none"
                   /\ IsPrefix(gen.yielded, expected)
                   /\ (gen.status = "closed") => (gen.yielded = expected)
                   /\ (Len(gen.yielded) = Len(expected)) => (gen.rest = <<>> \/ gen.status = "created")
                   /\ \A i \in 1 .. Len(gen.yielded) - 1 :
                         IF gen.op = "holidays_after"
                         THEN gen.yielded[i].date <= gen.yielded[i + 1].date
                         ELSE gen.yielded[i].date >= gen.yielded[i + 1].date

\* holidays_after('scotland', 1 January 2018) yielded 2 January and ended
C14_Witness ==
    \E g \in GeneratorIds :
        /\ generators[g].op = "holidays_after"
        /\ generators[g].division = SCOTLAND
        /\ generators[g].date = NewYear2018
        /\ generators[g].status = "closed"
        /\ Len(generators[g].yielded) = 1
        /\ generators[g].yielded[1].date = NewYear2018 + 1

\* what holds of a work-day generator for a loaded division at every moment:
\* the dates yielded are, in the order of the search, exactly the work days
\* among the dates the search has gone through
WorkDaysSoFar(gen) ==
    LET forward == gen.op = "work_days_after"
        passed == IF forward THEN (gen.date + 1) .. gen.cur ELSE gen.cur .. (gen.date - 1)
    IN  /\ \A i \in 1 .. Len(gen.yielded) - 1 :
              IF forward THEN gen.yielded[i] < gen.yielded[i + 1]
              ELSE gen.yielded[i] > gen.yielded[i + 1]
        /\ {gen.yielded[i] : i \in 1 .. Len(gen.yielded)}
              = {x \in passed : IsWorkDayTruth(x, gen.division)}
        /\ gen.cur \in DateMin .. DateMax

RECURSIVE IsSubsequence(_, _)
IsSubsequence(s, t) ==
    IF s = <<>> THEN TRUE
    ELSE IF t = <<>> THEN FALSE
    ELSE IF Head(s) = Head(t) THEN IsSubsequence(Tail(s), Tail(t))
    ELSE IsSubsequence(s, Tail(t))

DatesOf(holidays) == [i \in 1 .. Len(holidays) |-> holidays[i].date]

\* the sequence with each run of equal entries cut down to one entry
RECURSIVE WithoutRepeats(_)
WithoutRepeats(s) ==
    IF Len(s) <= 1 THEN s
    ELSE IF s[1] = s[2] THEN WithoutRepeats(Tail(s))
    ELSE <<s[1]>> \o WithoutRepeats(Tail(s))

\* C16 as stated: the dates of get_holidays(), in order, form a subsequence
\* of the dates of get_holidays(D) for every loaded division D.
C16_CommonDatesSubsequence ==
    (phase = "ready" /\ CommonCall /\ call.status = "returned")
        => \A division \in DOMAIN data :
              IsSubsequence(DatesOf(call.value), DatesOf(data[division]))

\* C16 amended: the dates of get_holidays(), in order and each taken once,
\* form a subsequence of the dates of get_holidays(D) for every loaded
\* division D, so every date of a common holiday is the date of a holiday
\* of D.
C16_CommonDatesOnceSubsequence ==
    (phase = "ready" /\ CommonCall /\ call.status = "returned")
        => \A division \in DOMAIN data :
              /\ IsSubsequence(WithoutRepeats(DatesOf(call.value)), DatesOf(data[division]))
              /\ DateSet(call.value) \subseteq DateSet(data[division])

\* England and Wales has two holidays on a day that Scotland has once
C16_Witness ==
    /\ phase = "ready"
    /\ CommonCall
    /\ call.status = "returned"
    /\ Len(call.value) = 2
    /\ call.value[1].date = call.value[2].date
    /\ SCOTLAND \in DOMAIN data
    /\ Len(data[SCOTLAND]) = 2
    /\ data[SCOTLAND][1].date = call.value[1].date
    /\ data[SCOTLAND][2].date > call.value[1].date

\* the remote payload was read and has a key that is none of the three
\* division identifiers
UnknownKeyLoaded ==
    /\ Constructed
    /\ args.response.parses
    /\ \E i \in 1 .. Len(args.response.json) : args.response.json[i].key \notin Division

\* C17 as stated: constructing from a payload that has an unrecognized
\* division key succeeds and the recognized divisions of the payload are
\* loaded.
C17_UnknownKeyAccepted ==
    UnknownKeyLoaded
        => /\ phase = "ready"
           /\ \A i \in 1 .. Len(args.response.json) :
                 (args.response.json[i].key \in Division) => (args.response.json[i].key \in DOMAIN data)

\* C17 amended: constructing from a payload that has an unrecognized
\* division key raises ValueError and leaves no division loaded.
C17_UnknownKeyRaises ==
    UnknownKeyLoaded
        => /\ phase = "raised"
           /\ init_exc = "ValueError"
           /\ data = EmptyDict
           /\ call = NoCall

\* the unrecognized key comes after England and Wales with its holidays
C17_Witness ==
    /\ phase = "raised"
    /\ init_exc = "ValueError"
    /\ args.response.parses
    /\ Len(args.response.json) = 2
    /\ args.response.json[1].key = ENGLAND_AND_WALES
    /\ Len(args.response.json[1].item.events) = 2
    /\ args.response.json[2].key \notin Division

\* C18: when one of the three divisions, whichever it is, is missing from
\* the loaded data, get_holidays() with no division returns: it does not
\* raise, and its dates are those every loaded division has.
C18_CommonSurvivesMissingDivision ==
    (phase = "ready" /\ CommonCall /\ Cardinality(Division \ DOMAIN data) = 1)
        => /\ call.status = "returned"
           /\ DateSet(call.value) = DatesInCommon(data)

\* the first n work days a search meets that starts at cur and goes on for
\* at most the given number of days, within the calendar
RECURSIVE TakeWorkDays(_, _, _, _, _)
TakeWorkDays(division, cur, one_day, n, days) ==
    IF n = 0 \/ days = 0 \/ cur + one_day \notin DateMin .. DateMax THEN <<>>
    ELSE IF IsWorkDayTruth(cur + one_day, division)
    THEN <<cur + one_day>> \o TakeWorkDays(division, cur + one_day, one_day, n - 1, days - 1)
    ELSE TakeWorkDays(division, cur + one_day, one_day, n, days - 1)

\* what a generator with these arguments yields when it is the only one
\* consumed, as far as MaxItems work days
ConsumedAlone(op, division, date) ==
    IF ~HasList(division) THEN <<>>
    ELSE IF op = "holidays_after" THEN ListedAfter(division, date)
    ELSE IF op = "holidays_before" THEN ListedBefore(division, date)
    ELSE TakeWorkDays(division, date, IF op = "work_days_after" THEN 1 ELSE -1,
                      MaxItems, (MaxItems + 1) * (Horizon + 1))

\* C19: however the next() calls of two generators of one instance are
\* interleaved, what each has yielded is the beginning of what a generator
\* with its arguments yields when consumed alone; two generators made with
\* equal arguments each yield that sequence from its beginning.
C19_GeneratorsDoNotInterfere ==
    /\ \A g \in GeneratorIds :
          (generators[g].op # "none")
              => IsPrefix(generators[g].yielded,
                          ConsumedAlone(generators[g].op, generators[g].division, generators[g].date))
    /\ \A g, h \in GeneratorIds :
          (/\ generators[g].op # "none"
           /\ generators[g].op = generators[h].op
           /\ generators[g].division = generators[h].division
           /\ generators[g].date = generators[h].date)
              => \/ IsPrefix(generators[g].yielded, generators[h].yielded)
                 \/ IsPrefix(generators[h].yielded, generators[g].yielded)

\* a work_days_after generator for Scotland is consumed after one for no
\* division has filled the memoized date set of the common holidays
C19_Witness ==
    /\ generators["first"].op = "work_days_after"
    /\ generators["first"].division = None
    /\ generators["first"].date = NewYear2018 - 2
    /\ generators["first"].yielded = <<NewYear2018 + 1, NewYear2018 + 2>>
    /\ generators["second"].op = "work_days_after"
    /\ generators["second"].division = SCOTLAND
    /\ generators["second"].date = NewYear2018 - 2
    /\ generators["second"].yielded = <<NewYear2018 + 2>>
    /\ None \in DOMAIN cache
    /\ weekend = {5, 6}

WorkDaySearch == call.op \in {"get_next_work_day", "get_prev_work_day"}

\* C20: when the weekend set leaves a weekday out, every get_next_work_day
\* and get_prev_work_day call comes to an end, whatever the start date and
\* the loaded division; when the weekend set has all seven weekdays, no
\* such call ever returns a date.
C20_SearchTerminates ==
    /\ (WorkDaySearch /\ call.status = "running" /\ weekend # 0 .. 6)
          ~> (call.status \in {"returned", "raised"})
    /\ [](WorkDaySearch /\ weekend = 0 .. 6 => call.status # "returned")

\* with Monday the only weekday out of the weekend, the search from
\* Saturday 30 December 2017 passes the holiday of Monday 1 January and
\* ends on Monday 8 January 2018
C20_Witness ==
    /\ call.op = "get_next_work_day"
    /\ call.status = "returned"
    /\ call.date = NewYear2018 - 2
    /\ call.value = <<NewYear2018 + 7>>
    /\ weekend = 1 .. 6

\* self._data as __init__ left it: the lists built from the raw data that
\* was loaded, the remote body or the bundled snapshot
ConstructedData ==
    BuildData(IF ~args.response.error /\ args.response.parses
              THEN args.response.json ELSE BackupData).data

\* C21: queries, failed ones and generator steps among them, and changes
\* the caller makes to a list get_holidays returned leave the holiday lists
\* and the weekend set as __init__ made them, so every get_holidays call
\* returns what it would have returned right after construction; of the
\* instance's fields a step after construction changes the memoized date
\* sets at most.
C21_QueriesChangeOnlyTheCache ==
    /\ [](phase = "ready"
            => /\ data = ConstructedData
               /\ weekend = args.weekend
               /\ (call.op = "get_holidays" /\ call.status # "idle")
                     => LET fresh == GetHolidays(ConstructedData, call.division, call.year)
                        IN  /\ call.exc = fresh.exc
                            /\ call.value = fresh.value)
    /\ [][phase = "ready" => UNCHANGED <<phase, args, weekend, data, log, fetches, init_exc>>]_vars

\* the caller removed an item from the list of get_holidays('scotland'), a
\* generator is half consumed, a date set is memoized, and a later
\* get_holidays('scotland') returns both holidays
C21_Witness ==
    /\ held.division = SCOTLAND
    /\ held.year = NoYear
    /\ Len(held.list) = 1
    /\ generators["first"].op = "holidays_after"
    /\ generators["first"].division = SCOTLAND
    /\ Len(generators["first"].yielded) = 1
    /\ SCOTLAND \in DOMAIN cache
    /\ call.op = "get_holidays"
    /\ call.division = SCOTLAND
    /\ call.year = NoYear
    /\ call.status = "returned"
    /\ Len(call.value) = 2

\* the call that goes with the generator method
CallOf(op) ==
    IF op = "holidays_after" THEN "get_next_holiday"
    ELSE IF op = "holidays_before" THEN "get_prev_holiday"
    ELSE IF op = "work_days_after" THEN "get_next_work_day"
    ELSE IF op = "work_days_before" THEN "get_prev_work_day"
    ELSE "none"

\* C22: a finished get_next_holiday, get_prev_holiday, get_next_work_day or
\* get_prev_work_day call with the arguments of a generator of the going
\* method that is past its first next() has the generator's first item as
\* its result, None when the generator ended without an item, and raises
\* what the generator raised; and a finished work-day search from the
\* k-th item of the generator has its k+1-th item as result.
C22_CallsAreFirstItems ==
    LET gen == generators["first"]
        n == Len(gen.yielded)
    IN  (/\ call.status \in {"returned", "raised"}
         /\ call.op = CallOf(gen.op)
         /\ call.division = gen.division
         /\ gen.status \in {"suspended", "closed"})
            => /\ (call.date = gen.date /\ n > 0)
                    => (call.status = "returned" /\ call.value = <<gen.yielded[1]>>)
               /\ (call.date = gen.date /\ n = 0)
                    => (call.exc = gen.exc /\ call.value = <<>>)
               /\ \A k \in 1 .. n - 1 :
                    (gen.op \in WorkDayGenerators /\ call.date = gen.yielded[k])
                        => (call.status = "returned" /\ call.value = <<gen.yielded[k + 1]>>)

\* the work days after Saturday 30 December 2017 in Scotland begin with
\* Wednesday 3 and Thursday 4 January, and the search from Wednesday
\* returns Thursday
C22_Witness ==
    /\ generators["first"].op = "work_days_after"
    /\ generators["first"].division = SCOTLAND
    /\ generators["first"].date = NewYear2018 - 2
    /\ generators["first"].yielded = <<NewYear2018 + 2, NewYear2018 + 3>>
    /\ call.op = "get_next_work_day"
    /\ call.division = SCOTLAND
    /\ call.date = NewYear2018 + 2
    /\ call.status = "returned"
    /\ call.value = <<NewYear2018 + 3>>

\* the call in progress is the opposite search from the result the caller kept
RoundTrip ==
    /\ held.kind = "search"
    /\ call.op = Opposite(held.op)
    /\ call.division = held.division
    /\ call.date = held.result
    /\ HasList(call.division)

\* the date the round trip came back to, against the date it started from
BackAtOrBeyond ==
    LET d == held.date
        r == call.value[1]
    IN  /\ Len(call.value) = 1
        /\ (r = d) <=> IsWorkDayTruth(d, call.division)
        /\ ~IsWorkDayTruth(d, call.division)
              => IF held.op = "get_next_work_day" THEN r < d ELSE r > d

\* C23 as stated: for every date d and loaded division D,
\* get_prev_work_day(D, get_next_work_day(D, d)) is d when d is a work day
\* and a date before d otherwise, and the same with the two searches
\* exchanged and "after" for "before"; so both searches return for every d.
C23_RoundTripForEveryDate ==
    /\ (WorkDaySearch /\ HasList(call.division) /\ call.status \notin {"idle", "running"})
          => call.status = "returned"
    /\ (RoundTrip /\ call.status \notin {"idle", "running"})
          => call.status = "returned" /\ BackAtOrBeyond

\* C23: whenever both searches return, get_prev_work_day(D,
\* get_next_work_day(D, d)) is d exactly when d is a work day and before d
\* otherwise, and get_next_work_day(D, get_prev_work_day(D, d)) is d exactly
\* when d is a work day and after d otherwise; a search on a loaded division
\* that does not return raises OverflowError, and only when no work day lies
\* between its start date and the end of the calendar it walks towards.
C23_RoundTripWhenReturned ==
    /\ (RoundTrip /\ call.status = "returned") => BackAtOrBeyond
    /\ (WorkDaySearch /\ HasList(call.division) /\ call.status \notin {"idle", "running"})
          => \/ call.status = "returned"
             \/ /\ call.status = "raised"
                /\ call.exc = "OverflowError"
                /\ IF call.op = "get_next_work_day"
                   THEN \A x \in (call.date + 1) .. DateMax : ~IsWorkDayTruth(x, call.division)
                   ELSE \A x \in DateMin .. (call.date - 1) : ~IsWorkDayTruth(x, call.division)

\* from Saturday 30 December 2017 the next work day in Scotland is Wednesday
\* 3 January, and the work day before that is Friday 29 December; from a
\* work day the round trip comes back to it
C23_Witness ==
    /\ RoundTrip
    /\ call.status = "returned"
    /\ weekend = {5, 6}
    /\ held.op = "get_next_work_day"
    /\ held.division = SCOTLAND
    /\ held.date = NewYear2018 - 2
    /\ held.result = NewYear2018 + 2
    /\ call.value = <<NewYear2018 - 3>>

\* the date set of get_holidays(division) on an instance with this store
DateSetOf(store, division) == DateSet(GetHolidays(store, division, NoYear).value)

\* every entry of the dict is the date set of its division's list in the store
CorrectEntries(store, dict) == \A k \in DOMAIN dict : dict[k] = DateSetOf(store, k)

\* every entry of the first dict is in the second, unchanged
KeepsEntries(before, after) ==
    \A k \in DOMAIN before : k \in DOMAIN after /\ after[k] = before[k]

\* C24: each instance has its own dict of memoized date sets, new and empty
\* at construction; every entry is the date set of its division's list on
\* that instance; a query that raises KeyError (division unknown or not
\* loaded) leaves the dict as it was; a query never replaces or removes an
\* entry; and queries on one instance neither read nor change the dict of
\* the other.
C24_CachePerInstance ==
    /\ [](phase = "ready"
            => /\ CorrectEntries(data, cache)
               /\ other.exists => CorrectEntries(other.data, other.cache)
               /\ (call.op = "is_holiday" /\ call.status = "returned")
                     => call.value = (call.date \in DateSetOf(data, call.division)))
    /\ [][phase = "ready"
            => /\ other' = other
                    => /\ KeepsEntries(cache, cache')
                       /\ (call' # call /\ call'.status = "raised") => cache' = cache
               /\ other' # other
                    => /\ other'.cache = cache
                       /\ other'.data = data
                       /\ cache' = IF other.exists THEN other.cache ELSE EmptyDict]_vars

\* the first instance has memoized Scotland's dates and the common dates;
\* on the second instance, which loaded England and Wales only, the common
\* dates are memoized afresh and is_holiday for Scotland raises KeyError,
\* leaving both dicts as they were
C24_Witness ==
    /\ other.exists
    /\ SCOTLAND \in DOMAIN other.cache
    /\ None \in DOMAIN other.cache
    /\ other.cache[SCOTLAND] # {}
    /\ DOMAIN data = {ENGLAND_AND_WALES}
    /\ DOMAIN cache = {None}
    /\ cache[None] # other.cache[None]
    /\ call.op = "is_holiday"
    /\ call.division = SCOTLAND
    /\ call.status = "raised"
    /\ call.exc = "KeyError"

====
